---- MODULE Spec2Model ----
(***************************************************************************)
(* A model of the deviceid crate: the facade (DevDeviceId::get and         *)
(* DevDeviceId::get_or_generate, src/src/lib.rs) over its two storage      *)
(* backends, the file-backed store (src/src/unix.rs) and the registry-     *)
(* backed store (src/src/windows.rs).                                      *)
(*                                                                         *)
(* Identifiers are 16-byte tuples, persisted text is a tuple of ASCII      *)
(* codes.  Every process runs one call at a time; a call advances one      *)
(* filesystem / registry operation per step, so that calls of different    *)
(* processes interleave between those operations.                          *)
(***************************************************************************)
EXTENDS Integers, Sequences, FiniteSets, TLC

(***************************************************************************)
(* Bounds of the model.                                                    *)
(***************************************************************************)
NumProcs == 2
MaxCalls == 3
MaxFaults == 1

Procs == 1..NumProcs

(***************************************************************************)
(* Identifier type: DevDeviceId(Uuid), its text rendering and parsing.     *)
(***************************************************************************)

\* ASCII codes used by the text forms.
HYPHEN == 45
LBRACE == 123
RBRACE == 125

\* "urn:uuid:"
URN_PREFIX == <<117, 114, 110, 58, 117, 117, 105, 100, 58>>

\* One lowercase hexadecimal digit of the "{:x}" rendering.
hex_lower(n) == IF n < 10 THEN 48 + n ELSE 87 + n

\* The value of a hexadecimal digit of either case, -1 for any other byte.
hex_value(c) ==
    IF c >= 48 /\ c <= 57 THEN c - 48
    ELSE IF c >= 97 /\ c <= 102 THEN c - 87
    ELSE IF c >= 65 /\ c <= 70 THEN c - 55
    ELSE -1

\* A rendering that writes the low digit of every byte before the high one.
simple_lower_swapped(u) ==
    [i \in 1..32 |->
        IF i % 2 = 1 THEN hex_lower(u[(i + 1) \div 2] % 16)
        ELSE hex_lower(u[i \div 2] \div 16)]

\* The 32 hexadecimal digits of a uuid, lowercase, without separators.
simple_lower(u) ==
    [i \in 1..32 |->
        IF i % 2 = 1 THEN hex_lower(u[(i + 1) \div 2] \div 16)
        ELSE hex_lower(u[i \div 2] % 16)]

\* Display for DevDeviceId: write!(f, "{:x}", self.0), the lowercase
\* hyphenated form 8-4-4-4-12.
to_string(u) ==
    LET h == simple_lower(u) IN
    SubSeq(h, 1, 8) \o <<HYPHEN>> \o SubSeq(h, 9, 12) \o <<HYPHEN>> \o
    SubSeq(h, 13, 16) \o <<HYPHEN>> \o SubSeq(h, 17, 20) \o <<HYPHEN>> \o
    SubSeq(h, 21, 32)

\* The result of a parse: the uuid, or a failure (BadUuidFormat).
ParseOk(u) == [ok |-> TRUE, uuid |-> u]
ParseFail == [ok |-> FALSE, uuid |-> <<>>]

\* 32 hexadecimal digits, of either case.
parse_simple(s) ==
    IF Len(s) = 32 /\ \A i \in 1..32 : hex_value(s[i]) >= 0
    THEN ParseOk([i \in 1..16 |-> 16 * hex_value(s[2 * i - 1]) + hex_value(s[2 * i])])
    ELSE ParseFail

\* 8-4-4-4-12 hexadecimal digits with hyphens at the four group boundaries.
parse_hyphenated(s) ==
    IF Len(s) = 36 /\ s[9] = HYPHEN /\ s[14] = HYPHEN /\ s[19] = HYPHEN /\ s[24] = HYPHEN
    THEN parse_simple(SubSeq(s, 1, 8) \o SubSeq(s, 10, 13) \o SubSeq(s, 15, 18)
                      \o SubSeq(s, 20, 23) \o SubSeq(s, 25, 36))
    ELSE ParseFail

\* uuid::Uuid::try_parse_ascii / uuid::Uuid::try_parse: the shape of the
\* input is decided by its length (32 simple, 36 hyphenated, 38 braced,
\* 45 urn); any other input is invalid.  Nothing is trimmed.
try_parse(s) ==
    IF Len(s) = 32 THEN parse_simple(s)
    ELSE IF Len(s) = 36 THEN parse_hyphenated(s)
    ELSE IF Len(s) = 38 /\ s[1] = LBRACE /\ s[38] = RBRACE
        THEN parse_hyphenated(SubSeq(s, 2, 37))
    ELSE IF Len(s) = 45 /\ SubSeq(s, 1, 9) = URN_PREFIX
        THEN parse_hyphenated(SubSeq(s, 10, 45))
    ELSE ParseFail

\* Version-4 identifiers generate_id() can produce (Uuid::new_v4()):
\* 550e8400-e29b-41d4-a716-446655440000 and
\* 123e4567-e89b-42d3-a456-426614174abc.
Uuid1 == <<85, 14, 132, 0, 226, 155, 65, 212, 167, 22, 68, 102, 85, 68, 0, 0>>
Uuid2 == <<18, 62, 69, 103, 232, 155, 66, 211, 164, 86, 66, 102, 20, 23, 74, 188>>
\* An identifier only ever found in a pre-existing record:
\* deadbeef-0000-4000-8000-0000000000ff.
Uuid3 == <<222, 173, 190, 239, 0, 0, 64, 0, 128, 0, 0, 0, 0, 0, 0, 255>>

GenIds == {Uuid1, Uuid2}

\* id.to_string(), rendered once for the identifiers that can be generated.
Rendered == [u \in GenIds |-> to_string(u)]
text_of(u) == IF u \in GenIds THEN Rendered[u] ELSE to_string(u)
NoId == <<>>

\* "not-a-uuid"
NotAUuid == <<110, 111, 116, 45, 97, 45, 117, 117, 105, 100>>
\* Uuid3 in the simple form with uppercase digits,
\* "DEADBEEF0000400080000000000000FF".
Uuid3Upper ==
    <<68, 69, 65, 68, 66, 69, 69, 70, 48, 48, 48, 48, 52, 48, 48, 48,
      56, 48, 48, 48, 48, 48, 48, 48, 48, 48, 48, 48, 48, 48, 70, 70>>
\* The canonical text of Uuid3 followed by a line feed,
\* "deadbeef-0000-4000-8000-0000000000ff\n".
Uuid3Newline == to_string(Uuid3) \o <<10>>


(***************************************************************************)
(* Results of the operations: Result<Option<DevDeviceId>> for retrieve and *)
(* get, Result<DevDeviceId> for get_or_generate, Result<()> for store.     *)
(***************************************************************************)
NoResult == [kind |-> "NoResult", uuid |-> NoId]
OkSome(u) == [kind |-> "Some", uuid |-> u]
OkNone == [kind |-> "None", uuid |-> NoId]
OkId(u) == [kind |-> "Ok", uuid |-> u]
OkUnit == [kind |-> "Unit", uuid |-> NoId]
\* enum Error { StorageError, BadUuidFormat, AlreadySet }
Err(e) == [kind |-> e, uuid |-> NoId]
Errors == {"StorageError", "BadUuidFormat", "AlreadySet"}

(***************************************************************************)
(* State.                                                                  *)
(*   target_os      the target the crate is compiled for ("linux", "macos" *)
(*                  or "windows")                                          *)
(*   xdg_cache_home, home   the environment variables XDG_CACHE_HOME and   *)
(*                  HOME: unset, or set to a path                          *)
(*   dir_exists     the parent directory / the registry key exists         *)
(*   file           the record: the file / the registry value "deviceid"   *)
(*   pc, op, pass, id, result   per process: position in the running call, *)
(*                  the call, which retrieve of get_or_generate is running,*)
(*                  the identifier generated or passed in, the result      *)
(*   io             per process, the open file of the running std::fs::read *)
(*                  or std::fs::write: the bytes read so far with the      *)
(*                  capacity of their buffer, the offset written up to     *)
(* History variables (never read by the operations):                       *)
(*   rec0           the record the environment started with                *)
(*   calls          number of calls begun                                  *)
(*   faults         number of I/O faults that occurred                     *)
(*   overlapped     some call began while another call was running         *)
(*   storeCalled    the low-level store was called directly                *)
(*   writes         number of times a call created or truncated the record *)
(*                  file, or set the registry value                        *)
(*   firstGog       the first identifier a get_or_generate returned, in a  *)
(*                  run that was Sequential up to then                     *)
(*   seen           per process, the record as it was when the running     *)
(*                  call began (recorded as long as no calls overlapped)   *)
(*   location       the path at which the record was created               *)
(*   trace          per process, the backend operations the running call   *)
(*                  has issued so far                                      *)
(***************************************************************************)
VARIABLES target_os, xdg_cache_home, home, dir_exists, file,
          pc, op, pass, id, result, io,
          rec0, calls, faults, overlapped, storeCalled, writes, firstGog, seen,
          location, trace

\* #[cfg(target_family = "unix")] / #[cfg(target_family = "windows")]
target_family == IF target_os = "windows" THEN "windows" ELSE "unix"

environment == <<target_os, xdg_cache_home, home>>

storage == <<dir_exists, file>>
locals == <<pc, op, pass, id, result, io>>
history == <<rec0, calls, faults, overlapped, storeCalled, writes, firstGog, seen,
             location, trace>>
vars == <<target_os, xdg_cache_home, home, dir_exists, file,
          pc, op, pass, id, result, io,
          rec0, calls, faults, overlapped, storeCalled, writes, firstGog, seen,
          location, trace>>

(***************************************************************************)
(* Location of the record.  A path is the tuple of its components; an      *)
(* environment variable is unset or holds a path (std::env::var_os).       *)
(***************************************************************************)
Unset == [set |-> FALSE, path |-> <<>>]
SetTo(dir) == [set |-> TRUE, path |-> dir]

\* Directories the environment variables point to: "/home/dev" and
\* "/var/cache/dev".
HomeDir == <<"/", "home", "dev">>
CacheHomeDir == <<"/", "var", "cache", "dev">>

\* const DEV_DEVICEID_PATH: &str = "Microsoft/DeveloperTools"
DEV_DEVICEID_PATH == <<"Microsoft", "DeveloperTools">>
\* const FILENAME: &str = "deviceid"
FILENAME == <<"deviceid">>
\* const REGISTRY_PATH / REGISTRY_KEY, under HKEY_CURRENT_USER
REGISTRY_PATH == <<"HKEY_CURRENT_USER", "SOFTWARE", "Microsoft", "DeveloperTools">>
REGISTRY_KEY == <<"deviceid">>

\* Result<PathBuf>: a path, or the StorageError of an unset variable.
PathOk(dir) == [ok |-> TRUE, path |-> dir]
PathErr == [ok |-> FALSE, path |-> <<>>]
NoPath == <<>>

\* PathBuf::push of a relative path.
push(r, rel) == IF r.ok THEN PathOk(r.path \o rel) ELSE r

\* A root_path that consults XDG_CACHE_HOME on every target.
root_path_xdg_first ==
    IF xdg_cache_home.set THEN PathOk(xdg_cache_home.path)
    ELSE IF home.set THEN
        push(PathOk(home.path),
             IF target_os = "macos" THEN <<"Library", "Application Support">>
             ELSE <<".cache">>)
    ELSE PathErr

\* root_path(), #[cfg(target_os = "macos")]: HOME/Library/Application Support.
\* root_path(), #[cfg(target_os = "linux")]: XDG_CACHE_HOME, else HOME/.cache.
root_path ==
    IF target_os = "macos" THEN
        IF home.set THEN push(PathOk(home.path), <<"Library", "Application Support">>)
        ELSE PathErr
    ELSE
        IF xdg_cache_home.set THEN PathOk(xdg_cache_home.path)
        ELSE IF home.set THEN push(PathOk(home.path), <<".cache">>)
        ELSE PathErr

\* folder_path(): root_path()? pushed with DEV_DEVICEID_PATH
folder_path == push(root_path, DEV_DEVICEID_PATH)

\* path(): folder_path()? pushed with FILENAME
path == push(folder_path, FILENAME)

\* Where the backend compiled in keeps the record.
record_location ==
    IF target_os = "windows" THEN REGISTRY_PATH \o REGISTRY_KEY ELSE path.path

\* No file is open: nothing read, no buffer, nothing written.
NoIo == [buf |-> <<>>, cap |-> 0, cap0 |-> 0, off |-> 0]

NoFile == [exists |-> FALSE, data |-> <<>>]
FileWith(text) == [exists |-> TRUE, data |-> text]

\* The records an environment can hold before the first call: none, a
\* valid record (written by another tool, in the simple form), a corrupted
\* one, the canonical text followed by a newline.
InitFiles == {NoFile, FileWith(Uuid3Upper), FileWith(NotAUuid), FileWith(Uuid3Newline)}

\* No call has been made yet.
InitCalls ==
    /\ dir_exists = file.exists
    /\ location = IF file.exists THEN record_location ELSE NoPath
    /\ trace = [p \in Procs |-> <<>>]
    /\ pc = [p \in Procs |-> "idle"]
    /\ op = [p \in Procs |-> "none"]
    /\ pass = [p \in Procs |-> 1]
    /\ id = [p \in Procs |-> NoId]
    /\ result = [p \in Procs |-> NoResult]
    /\ io = [p \in Procs |-> NoIo]
    /\ rec0 = file
    /\ calls = 0
    /\ faults = 0
    /\ overlapped = FALSE
    /\ storeCalled = FALSE
    /\ writes = 0
    /\ firstGog = NoId
    /\ seen = [p \in Procs |-> NoFile]

\* The environment of the test suites: HOME is set to a directory,
\* XDG_CACHE_HOME is not set (tests/unix_test.rs); the record is missing,
\* valid or corrupted.
Init ==
    /\ target_os \in {"linux", "windows"}
    /\ xdg_cache_home = Unset
    /\ home = SetTo(HomeDir)
    /\ file \in InitFiles
    /\ InitCalls

\* Every environment of the file-backed store, without a record: either
\* target, each of the two variables set or not.
InitEnv ==
    /\ target_os \in {"linux", "macos"}
    /\ xdg_cache_home \in {Unset, SetTo(CacheHomeDir)}
    /\ home \in {Unset, SetTo(HomeDir)}
    /\ file = NoFile
    /\ InitCalls

Running(q) == pc[q] \notin {"idle", "done"}

\* So far the calls ran one after another, without a fault, through the
\* facade only.
Sequential == ~overlapped /\ faults = 0 /\ ~storeCalled

\* An I/O or registry fault may strike any backend operation.
Fault(f) ==
    /\ f => faults < MaxFaults
    /\ faults' = IF f THEN faults + 1 ELSE faults

\* First operation of storage::retrieve / storage::store on the backend.
RetrieveEntry == "retrieve"
StoreEntry == IF target_family = "unix" THEN "store_create_dir_all" ELSE "store_open_create_key"

\* The call of process p returns r to its caller.
Return(p, r) ==
    /\ pc' = [pc EXCEPT ![p] = "done"]
    /\ result' = [result EXCEPT ![p] = r]
    /\ firstGog' = IF op[p] = "get_or_generate" /\ r.kind = "Ok" /\ firstGog = NoId
                      /\ Sequential
                   THEN r.uuid ELSE firstGog
    /\ pass' = [pass EXCEPT ![p] = 1]
    /\ seen' = [seen EXCEPT ![p] = NoFile]
    /\ UNCHANGED <<op, id>>

\* The call of process p moves on to the backend operation at label l.
Goto(p, l) ==
    /\ pc' = [pc EXCEPT ![p] = l]
    /\ UNCHANGED <<op, pass, id, result, firstGog, seen>>

\* The step of process p issues the backend operation o of its call; the
\* record of a call is dropped when the call returns.
Issue(p, o) ==
    trace' = [trace EXCEPT ![p] = IF pc'[p] = "done" THEN <<>> ELSE Append(@, o)]

\* The step of process p continues a backend operation already issued.
Within(p) ==
    trace' = [trace EXCEPT ![p] = IF pc'[p] = "done" THEN <<>> ELSE @]

(***************************************************************************)
(* Facade: DevDeviceId::get and DevDeviceId::get_or_generate.              *)
(***************************************************************************)

\* A process begins a call.  Processes are interchangeable, so they are
\* numbered in the order of their first call.
Begin(p, o, u, entry) ==
    /\ pc[p] \in {"idle", "done"}
    /\ \A q \in Procs : q < p => pc[q] # "idle"
    /\ calls < MaxCalls
    /\ calls' = calls + 1
    /\ op' = [op EXCEPT ![p] = o]
    /\ id' = [id EXCEPT ![p] = u]
    /\ pass' = [pass EXCEPT ![p] = 1]
    /\ result' = [result EXCEPT ![p] = NoResult]
    /\ pc' = [pc EXCEPT ![p] = entry]
    /\ overlapped' = (overlapped \/ \E q \in Procs \ {p} : Running(q))
    /\ seen' = [seen EXCEPT ![p] = IF overlapped' THEN NoFile ELSE file]
    /\ UNCHANGED <<environment, io, location, trace, storage, rec0, faults, writes, firstGog>>

call_get(p) ==
    /\ Begin(p, "get", NoId, RetrieveEntry)
    /\ UNCHANGED storeCalled

call_get_or_generate(p) ==
    /\ Begin(p, "get_or_generate", NoId, RetrieveEntry)
    /\ UNCHANGED storeCalled

\* A direct caller of the low-level store operation.
call_store(p) ==
    /\ \E u \in GenIds : Begin(p, "store", u, StoreEntry)
    /\ storeCalled' = TRUE

\* get(): storage::retrieve(), returned unchanged.
get(p, r) == Return(p, r)

\* Mutant of get_or_generate_first: the identifier found by the first
\* retrieve is ignored, a new one is generated and stored in every case.
get_or_generate_first_regenerates(p, r) ==
    IF r.kind \in {"Some", "None"} THEN
        \E u \in GenIds :
            /\ id' = [id EXCEPT ![p] = u]
            /\ pc' = [pc EXCEPT ![p] = StoreEntry]
            /\ UNCHANGED <<op, pass, result, firstGog, seen>>
    ELSE Return(p, r)

\* Mutant of get_or_generate_first: a record that does not parse is treated
\* like a missing one and replaced.
get_or_generate_first_repairs(p, r) ==
    IF r.kind = "Some" THEN Return(p, OkId(r.uuid))
    ELSE IF r.kind \in {"None", "BadUuidFormat"} THEN
        \E u \in GenIds :
            /\ id' = [id EXCEPT ![p] = u]
            /\ pc' = [pc EXCEPT ![p] = StoreEntry]
            /\ UNCHANGED <<op, pass, result, firstGog, seen>>
    ELSE Return(p, r)

\* get_or_generate(), from the result r of its first retrieve:
\*   match storage::retrieve()? { Some(id) => Ok(id), None => { generate_id(); store .. } }
get_or_generate_first(p, r) ==
    IF r.kind = "Some" THEN Return(p, OkId(r.uuid))
    ELSE IF r.kind = "None" THEN
        \E u \in GenIds :
            /\ id' = [id EXCEPT ![p] = u]
            /\ pc' = [pc EXCEPT ![p] = StoreEntry]
            /\ UNCHANGED <<op, pass, result, firstGog, seen>>
    ELSE Return(p, r)

\* Mutant of get_or_generate_stored: a lost race is answered with the
\* identifier generated by this call, without the re-read.
get_or_generate_stored_keeps_own(p, s) ==
    IF s.kind = "Unit" THEN
        /\ pass' = [pass EXCEPT ![p] = 2]
        /\ pc' = [pc EXCEPT ![p] = RetrieveEntry]
        /\ UNCHANGED <<op, id, result, firstGog, seen>>
    ELSE IF s.kind = "AlreadySet" THEN Return(p, OkId(id[p]))
    ELSE Return(p, s)

\* A get_or_generate that tries the store again when it failed with a
\* storage error.
get_or_generate_stored_retries(p, s) ==
    IF s.kind = "Unit" THEN
        /\ pass' = [pass EXCEPT ![p] = 2]
        /\ pc' = [pc EXCEPT ![p] = RetrieveEntry]
        /\ UNCHANGED <<op, id, result, firstGog, seen>>
    ELSE IF s.kind = "StorageError" THEN
        /\ pc' = [pc EXCEPT ![p] = StoreEntry]
        /\ UNCHANGED <<op, pass, id, result, firstGog, seen>>
    ELSE Return(p, s)

\* get_or_generate(), from the result s of store: storage::store(&id)?
get_or_generate_stored(p, s) ==
    IF s.kind = "Unit" THEN
        /\ pass' = [pass EXCEPT ![p] = 2]
        /\ pc' = [pc EXCEPT ![p] = RetrieveEntry]
        /\ UNCHANGED <<op, id, result, firstGog, seen>>
    ELSE Return(p, s)

\* A re-read whose answer is dropped in favour of the identifier this
\* call generated.
get_or_generate_second_keeps_own(p, r) ==
    IF r.kind \in {"Some", "None"} THEN Return(p, OkId(id[p]))
    ELSE Return(p, r)

\* get_or_generate(), from the result r of the re-read:
\*   Ok(storage::retrieve()?.unwrap_or(id))
get_or_generate_second(p, r) ==
    IF r.kind = "Some" THEN Return(p, OkId(r.uuid))
    ELSE IF r.kind = "None" THEN Return(p, OkId(id[p]))
    ELSE Return(p, r)

\* storage::retrieve() of process p returns r.
retrieve_returns(p, r) ==
    IF op[p] = "get" THEN get(p, r)
    ELSE IF pass[p] = 1 THEN get_or_generate_first(p, r)
    ELSE get_or_generate_second(p, r)

\* storage::store() of process p returns s.
store_returns(p, s) ==
    IF op[p] = "store" THEN Return(p, s)
    ELSE get_or_generate_stored(p, s)

\* The texts a record holds in this model, each with its parse.
RecordTexts ==
    {f.data : f \in InitFiles} \cup {text_of(u) : u \in GenIds}
Parsed == [t \in RecordTexts |-> try_parse(t)]

\* The text of a record, parsed into the result of retrieve.
parse_record(text) ==
    LET r == IF text \in RecordTexts THEN Parsed[text] ELSE try_parse(text) IN
    IF r.ok THEN OkSome(r.uuid) ELSE Err("BadUuidFormat")

(***************************************************************************)
(* File-backed store: UnixStorage.                                         *)
(***************************************************************************)

\* Path::exists(): false when the file is absent, and also when its
\* metadata cannot be read.
path_exists(f) == file.exists /\ ~f

\* UnixStorage::retrieve, up to the existence check:
\*   let path = path()?;
\*   if path.exists() { .. } else { Ok(None) }
UnixStorage_retrieve(p) ==
    /\ pc[p] = "retrieve"
    /\ target_family = "unix"
    /\ \E f \in BOOLEAN :
        /\ Fault(f)
        /\ IF ~path.ok THEN ~f /\ retrieve_returns(p, Err("StorageError"))
           ELSE IF ~path_exists(f) THEN retrieve_returns(p, OkNone)
           ELSE Goto(p, "retrieve_open")
    /\ Issue(p, "retrieve")
    /\ UNCHANGED <<environment, io, location, storage, rec0, calls, overlapped, storeCalled, writes>>

\* std::fs::read(path), the file is opened for reading: File::open(path)?
\* The open fails on a fault, and on a file that is not there.
retrieve_open(p) ==
    /\ pc[p] = "retrieve_open"
    /\ \E f \in BOOLEAN :
        /\ Fault(f)
        /\ IF f \/ ~file.exists THEN retrieve_returns(p, Err("StorageError"))
           ELSE Goto(p, "retrieve_fstat")
    /\ Within(p)
    /\ UNCHANGED <<environment, io, location, storage, rec0, calls, overlapped, storeCalled, writes>>

\* std::fs::read(path), the size of the open file is asked for and a buffer
\* of that capacity reserved: file.metadata().map(|m| m.len()).ok().  A
\* size that cannot be had is no error; the buffer then starts without
\* capacity, as for an empty file.
retrieve_fstat(p) ==
    /\ pc[p] = "retrieve_fstat"
    /\ \E f \in BOOLEAN :
        /\ Fault(f)
        /\ LET size == IF f THEN 0 ELSE Len(file.data) IN
           io' = [io EXCEPT ![p] = [NoIo EXCEPT !.cap = size, !.cap0 = size]]
    /\ Goto(p, "retrieve_read")
    /\ Within(p)
    /\ UNCHANGED <<environment, location, storage, rec0, calls, overlapped, storeCalled, writes>>

\* read_to_end probes for the end of the file with a buffer of 32 bytes.
PROBE_SIZE == 32

\* The smallest capacity a byte vector grows to.
MIN_NON_ZERO_CAP == 8

Min(a, b) == IF a < b THEN a ELSE b
Max(a, b) == IF a > b THEN a ELSE b

\* The capacity a vector of capacity cap grows to when it has to hold
\* required bytes: at least twice what it was.
grow_amortized(cap, required) == Max(Max(2 * cap, required), MIN_NON_ZERO_CAP)

\* read(2) of up to n bytes at offset off of the record file.
read_at(off, n) ==
    IF off >= Len(file.data) THEN <<>>
    ELSE SubSeq(file.data, off + 1, Min(off + n, Len(file.data)))

\* std::fs::read(path), one read of the loop of read_to_end, and then
\*   Uuid::try_parse_ascii(data.as_slice())
\* When the buffer is full and still has the capacity it started with, the
\* read goes into a probe buffer, which is appended to the buffer; otherwise
\* it goes into the spare capacity of the buffer, which is grown by a probe
\* first when it is full.  The loop ends at the first read that finds
\* nothing more; each read sees the file as it is then.
retrieve_read(p) ==
    /\ pc[p] = "retrieve_read"
    /\ \E f \in BOOLEAN :
        /\ Fault(f)
        /\ LET buf == io[p].buf
               cap == io[p].cap
               probe == Len(buf) = cap /\ cap = io[p].cap0
               reserved == IF Len(buf) = cap
                           THEN grow_amortized(cap, Len(buf) + PROBE_SIZE) ELSE cap
               data == read_at(Len(buf), IF probe THEN PROBE_SIZE ELSE reserved - Len(buf))
           IN
           IF f THEN /\ retrieve_returns(p, Err("StorageError"))
                     /\ io' = [io EXCEPT ![p] = NoIo]
           ELSE IF data = <<>> THEN /\ retrieve_returns(p, parse_record(buf))
                                    /\ io' = [io EXCEPT ![p] = NoIo]
           ELSE /\ Goto(p, "retrieve_read")
                /\ io' = [io EXCEPT ![p].buf = buf \o data,
                                    ![p].cap = IF probe
                                               THEN grow_amortized(cap, Len(buf) + Len(data))
                                               ELSE reserved]
    /\ Within(p)
    /\ UNCHANGED <<environment, location, storage, rec0, calls, overlapped, storeCalled, writes>>

\* store: std::fs::create_dir_all(folder_path()?)
store_create_dir_all(p) ==
    /\ pc[p] = "store_create_dir_all"
    /\ \E f \in BOOLEAN :
        /\ Fault(f)
        /\ IF ~folder_path.ok
           THEN ~f /\ store_returns(p, Err("StorageError")) /\ UNCHANGED dir_exists
           ELSE IF f THEN store_returns(p, Err("StorageError")) /\ UNCHANGED dir_exists
           ELSE Goto(p, "store_exists") /\ dir_exists' = TRUE
    /\ Issue(p, "store")
    /\ UNCHANGED <<environment, io, location, file, rec0, calls, overlapped, storeCalled, writes>>

\* Mutant of store_exists: the file is written whether or not it exists.
store_exists_unchecked(p) ==
    /\ pc[p] = "store_exists"
    /\ \E f \in BOOLEAN :
        /\ Fault(f)
        /\ Goto(p, "store_write_create")
    /\ Within(p)
    /\ UNCHANGED <<environment, io, location, storage, rec0, calls, overlapped, storeCalled, writes>>

\* A store whose existence check is inverted: it writes over an existing
\* file and refuses a missing one.
store_exists_inverted(p) ==
    /\ pc[p] = "store_exists"
    /\ \E f \in BOOLEAN :
        /\ Fault(f)
        /\ IF path_exists(f) THEN Goto(p, "store_write_create")
           ELSE store_returns(p, Err("AlreadySet"))
    /\ Within(p)
    /\ UNCHANGED <<environment, io, location, storage, rec0, calls, overlapped, storeCalled, writes>>

\* store: if !path()?.exists() { write } else { Err(AlreadySet) }
store_exists(p) ==
    /\ pc[p] = "store_exists"
    /\ \E f \in BOOLEAN :
        /\ Fault(f)
        /\ IF ~path_exists(f) THEN Goto(p, "store_write_create")
           ELSE store_returns(p, Err("AlreadySet"))
    /\ Within(p)
    /\ UNCHANGED <<environment, io, location, storage, rec0, calls, overlapped, storeCalled, writes>>

\* store: std::fs::write, the file is opened for writing: File::create(path)?
\* creates it, or truncates it when it exists.
store_write_create(p) ==
    /\ pc[p] = "store_write_create"
    /\ \E f \in BOOLEAN :
        /\ Fault(f)
        /\ IF f THEN store_returns(p, Err("StorageError")) /\ UNCHANGED <<file, writes, location>>
           ELSE /\ Goto(p, "store_write_all")
                /\ file' = FileWith(<<>>)
                /\ location' = path.path
                /\ writes' = writes + 1
    /\ Within(p)
    /\ UNCHANGED <<environment, io, dir_exists, rec0, calls, overlapped, storeCalled>>

\* The byte a read finds where nothing was written.
NUL == 0

\* write(2) of bytes at offset off of the record file: the bytes replace
\* what is there, nothing else of the file changes; a file that ends before
\* the offset is filled up with NUL bytes.
write_at(off, bytes) ==
    LET old == file.data \o [i \in 1 .. (off - Len(file.data)) |-> NUL] IN
    FileWith(SubSeq(old, 1, off) \o bytes \o SubSeq(old, off + Len(bytes) + 1, Len(old)))

\* The numbers of bytes a write of text can take when it does not take all
\* of them.
PartialLengths(text) == 1 .. (Len(text) - 1)

\* store: std::fs::write, one write of the loop of write_all(id_str.as_bytes()).
\* The write takes all that is left of the text, and the store returns; or
\* it takes a part of it (a fault: the disk is full, the file has reached
\* its size limit), and the loop goes on; or it fails, and the store fails
\* with what was written before left in the file.  A write that follows a
\* partial one fails without a further fault.
store_write_all(p) ==
    /\ pc[p] = "store_write_all"
    /\ LET off == io[p].off
           text == text_of(id[p])
           left == SubSeq(text, off + 1, Len(text))
       IN
       \/ /\ Fault(FALSE)
          /\ file' = write_at(off, left)
          /\ store_returns(p, OkUnit)
          /\ io' = [io EXCEPT ![p] = NoIo]
       \/ \E n \in PartialLengths(left) :
             /\ Fault(TRUE)
             /\ file' = write_at(off, SubSeq(left, 1, n))
             /\ Goto(p, "store_write_all")
             /\ io' = [io EXCEPT ![p].off = off + n]
       \/ /\ Fault(off = 0)
          /\ UNCHANGED file
          /\ store_returns(p, Err("StorageError"))
          /\ io' = [io EXCEPT ![p] = NoIo]
    /\ Within(p)
    /\ UNCHANGED <<environment, location, dir_exists, rec0, calls, overlapped, storeCalled, writes>>

(***************************************************************************)
(* Registry-backed store: retrieve_with_registry / store_with_registry.    *)
(***************************************************************************)

\* Mutant of retrieve_with_registry: the key is opened with
\* open_create_key, which creates it.
retrieve_with_registry_creates_key(p) ==
    /\ pc[p] = "retrieve"
    /\ target_family = "windows"
    /\ \E f \in BOOLEAN :
        /\ Fault(f)
        /\ IF f THEN retrieve_returns(p, Err("StorageError")) /\ UNCHANGED dir_exists
           ELSE Goto(p, "retrieve_get_value") /\ dir_exists' = TRUE
    /\ Issue(p, "retrieve")
    /\ UNCHANGED <<environment, io, location, file, rec0, calls, overlapped, storeCalled, writes>>

\* retrieve_with_registry, the first registry call:
\*   if !registry.open_read_key(REGISTRY_PATH)? { return Ok(None) }
retrieve_with_registry(p) ==
    /\ pc[p] = "retrieve"
    /\ target_family = "windows"
    /\ \E f \in BOOLEAN :
        /\ Fault(f)
        /\ IF f THEN retrieve_returns(p, Err("StorageError"))
           ELSE IF ~dir_exists THEN retrieve_returns(p, OkNone)
           ELSE Goto(p, "retrieve_get_value")
    /\ Issue(p, "retrieve")
    /\ UNCHANGED <<environment, io, location, storage, rec0, calls, overlapped, storeCalled, writes>>

\* Mutant of retrieve_get_value: a key without the value is reported as a
\* storage error instead of None.
retrieve_get_value_required(p) ==
    /\ pc[p] = "retrieve_get_value"
    /\ \E f \in BOOLEAN :
        /\ Fault(f)
        /\ IF f THEN retrieve_returns(p, Err("StorageError"))
           ELSE IF ~dir_exists THEN retrieve_returns(p, OkNone)
           ELSE IF ~file.exists THEN retrieve_returns(p, Err("StorageError"))
           ELSE retrieve_returns(p, parse_record(file.data))
    /\ Within(p)
    /\ UNCHANGED <<environment, io, location, storage, rec0, calls, overlapped, storeCalled, writes>>

\* retrieve_with_registry, the second registry call:
\*   match registry.get_value(REGISTRY_PATH, REGISTRY_KEY)? {
\*       Some(value) => try_parse(&value), None => Ok(None) }
\* get_value answers None for a missing key as for a missing value.
retrieve_get_value(p) ==
    /\ pc[p] = "retrieve_get_value"
    /\ \E f \in BOOLEAN :
        /\ Fault(f)
        /\ IF f THEN retrieve_returns(p, Err("StorageError"))
           ELSE IF ~dir_exists \/ ~file.exists THEN retrieve_returns(p, OkNone)
           ELSE retrieve_returns(p, parse_record(file.data))
    /\ Within(p)
    /\ UNCHANGED <<environment, io, location, storage, rec0, calls, overlapped, storeCalled, writes>>

\* store: registry.open_create_key(REGISTRY_PATH)?
store_open_create_key(p) ==
    /\ pc[p] = "store_open_create_key"
    /\ \E f \in BOOLEAN :
        /\ Fault(f)
        /\ IF f THEN store_returns(p, Err("StorageError")) /\ UNCHANGED dir_exists
           ELSE Goto(p, "store_set_value") /\ dir_exists' = TRUE
    /\ Issue(p, "store")
    /\ UNCHANGED <<environment, io, location, file, rec0, calls, overlapped, storeCalled, writes>>

\* store: registry.set_value(REGISTRY_PATH, REGISTRY_KEY, &s)?  The value is
\* set whether or not one exists.
store_set_value(p) ==
    /\ pc[p] = "store_set_value"
    /\ \E f \in BOOLEAN :
        /\ Fault(f)
        /\ IF f THEN store_returns(p, Err("StorageError")) /\ UNCHANGED <<storage, writes, location>>
           ELSE /\ store_returns(p, OkUnit)
                /\ dir_exists' = TRUE
                /\ file' = FileWith(text_of(id[p]))
                /\ location' = REGISTRY_PATH \o REGISTRY_KEY
                /\ writes' = writes + 1
    /\ Within(p)
    /\ UNCHANGED <<environment, io, rec0, calls, overlapped, storeCalled>>

Next ==
    \E p \in Procs :
        \/ call_get(p)
        \/ call_get_or_generate(p)
        \/ call_store(p)
        \/ UnixStorage_retrieve(p)
        \/ retrieve_open(p)
        \/ retrieve_fstat(p)
        \/ retrieve_read(p)
        \/ store_create_dir_all(p)
        \/ store_exists(p)
        \/ store_write_create(p)
        \/ store_write_all(p)
        \/ retrieve_with_registry(p)
        \/ retrieve_get_value(p)
        \/ store_open_create_key(p)
        \/ store_set_value(p)

Spec == Init /\ [][Next]_vars

\* The same calls without I/O faults, interleaved in every way: what
\* concurrent calls do to one another does not take a fault.
NoFault(A) == A /\ faults' = 0

NextNoFault ==
    \E p \in Procs :
        \/ NoFault(call_get(p))
        \/ NoFault(call_get_or_generate(p))
        \/ NoFault(call_store(p))
        \/ NoFault(UnixStorage_retrieve(p))
        \/ NoFault(retrieve_open(p))
        \/ NoFault(retrieve_fstat(p))
        \/ NoFault(retrieve_read(p))
        \/ NoFault(store_create_dir_all(p))
        \/ NoFault(store_exists(p))
        \/ NoFault(store_write_create(p))
        \/ NoFault(store_write_all(p))
        \/ NoFault(retrieve_with_registry(p))
        \/ NoFault(retrieve_get_value(p))
        \/ NoFault(store_open_create_key(p))
        \/ NoFault(store_set_value(p))

SpecNoFault == Init /\ [][NextNoFault]_vars

\* The same calls, faults included, one call after another: what a call
\* does on its own, whatever fails.
Serial(A) == A /\ ~overlapped'

NextSerial ==
    \E p \in Procs :
        \/ Serial(call_get(p))
        \/ Serial(call_get_or_generate(p))
        \/ Serial(call_store(p))
        \/ Serial(UnixStorage_retrieve(p))
        \/ Serial(retrieve_open(p))
        \/ Serial(retrieve_fstat(p))
        \/ Serial(retrieve_read(p))
        \/ Serial(store_create_dir_all(p))
        \/ Serial(store_exists(p))
        \/ Serial(store_write_create(p))
        \/ Serial(store_write_all(p))
        \/ Serial(retrieve_with_registry(p))
        \/ Serial(retrieve_get_value(p))
        \/ Serial(store_open_create_key(p))
        \/ Serial(store_set_value(p))

SpecSerial == Init /\ [][NextSerial]_vars

\* The calls of the file-backed store in every environment, one call after
\* another and without faults: where the record is kept does not depend on
\* how calls interleave.
InTurn(A) == A /\ ~overlapped' /\ faults' = 0

NextEnv ==
    \E p \in Procs :
        \/ InTurn(call_get(p))
        \/ InTurn(call_get_or_generate(p))
        \/ InTurn(call_store(p))
        \/ InTurn(UnixStorage_retrieve(p))
        \/ InTurn(retrieve_open(p))
        \/ InTurn(retrieve_fstat(p))
        \/ InTurn(retrieve_read(p))
        \/ InTurn(store_create_dir_all(p))
        \/ InTurn(store_exists(p))
        \/ InTurn(store_write_create(p))
        \/ InTurn(store_write_all(p))

SpecEnv == InitEnv /\ [][NextEnv]_vars


(***************************************************************************)
(* Vocabulary of the properties.                                           *)
(***************************************************************************)

\* In this step the call of process p returns.
Completes(p) == pc[p] # "done" /\ pc'[p] = "done"

\* In this step the running call of process p performs an operation.
Steps(p) == Running(p) /\ (pc'[p] # pc[p] \/ io'[p] # io[p])

\* A record is persisted: the file exists / the key and its value exist.
RecordPresent == file.exists /\ (target_family = "windows" => dir_exists)

\* The environment started without a record.
Fresh == ~rec0.exists

\* The environment started with a record that is not a valid UUID.
Corrupted == rec0.exists /\ ~try_parse(rec0.data).ok

GogDone(p) == pc[p] = "done" /\ op[p] = "get_or_generate"
GetDone(p) == pc[p] = "done" /\ op[p] = "get"
StoreDone(p) == pc[p] = "done" /\ op[p] = "store"

(***************************************************************************)
(* C1: starting without a record, with calls running one after another     *)
(* through the facade and no fault: once a get_or_generate has returned X,  *)
(* every later get_or_generate returns X and every later get returns        *)
(* Some(X).                                                                 *)
(***************************************************************************)
C1_SequentialIdempotence ==
    [][\A p \in Procs :
         (Completes(p) /\ Fresh /\ Sequential' /\ firstGog # NoId) =>
            result'[p] = IF op[p] = "get_or_generate" THEN OkId(firstGog)
                         ELSE OkSome(firstGog)]_vars

\* Two get_or_generate calls and a get were made in sequence.
C1_Witness ==
    /\ Fresh /\ Sequential /\ calls = 3 /\ firstGog \in GenIds
    /\ \E p, q \in Procs :
        /\ GogDone(p) /\ result[p] = OkId(firstGog)
        /\ GetDone(q) /\ result[q] = OkSome(firstGog)

(***************************************************************************)
(* C2: AlreadySet is never the result of get_or_generate: a call that lost  *)
(* the race (its store failed with AlreadySet) returns the winner's record. *)
(* Stated for runs without I/O faults, where only a lost race can make the  *)
(* store of get_or_generate fail with AlreadySet.                           *)
(***************************************************************************)
C2_NeverAlreadySet ==
    faults = 0 => \A p \in Procs : GogDone(p) => result[p] # Err("AlreadySet")

(***************************************************************************)
(* C3: on an environment without a record, all get_or_generate calls that   *)
(* return an identifier return the same identifier, under every             *)
(* interleaving.  The claim is stated here for the file-backed store, whose *)
(* store checks for an existing record before it writes, for runs without   *)
(* I/O faults in which only the facade is called.                           *)
(***************************************************************************)
GogAgree ==
    \A p, q \in Procs :
        (GogDone(p) /\ GogDone(q) /\ result[p].kind = "Ok" /\ result[q].kind = "Ok")
            => result[p] = result[q]

C3_SingleWinner ==
    (target_family = "unix" /\ Fresh /\ ~storeCalled /\ faults = 0) => GogAgree

\* C3 as amended: on an environment without a record, all get_or_generate
\* calls that return an identifier return the same identifier as long as at
\* most one call has written the record (on either backend, with or without
\* direct callers of store, in runs without I/O faults).
C3_SingleWriterAgreement == (Fresh /\ writes <= 1) => GogAgree

\* Two overlapping get_or_generate calls returned the one identifier written.
C3_Witness ==
    /\ Fresh /\ overlapped /\ writes = 1 /\ ~storeCalled
    /\ \E p, q \in Procs :
        /\ p # q /\ GogDone(p) /\ GogDone(q)
        /\ result[p].kind = "Ok" /\ result[q] = result[p]


(***************************************************************************)
(* C4: file-backed store, calls one after another, no fault: store on a     *)
(* location without a record succeeds and persists its identifier; store on *)
(* a location that holds a record fails with AlreadySet and leaves the      *)
(* record unchanged.  (store(a) then store(b) on a fresh location: Ok, then *)
(* AlreadySet, and a stays.)                                                *)
(***************************************************************************)
NoOverwrite(p) ==
    IF seen[p].exists
    THEN result'[p] = Err("AlreadySet") /\ file' = seen[p]
    ELSE result'[p] = OkUnit /\ file' = FileWith(to_string(id[p]))

C4_FileNoOverwrite ==
    [][\A p \in Procs :
         (target_family = "unix" /\ op[p] = "store" /\ Completes(p)
          /\ ~overlapped /\ faults' = 0) => NoOverwrite(p)]_vars

\* store(a) succeeded, then store(b) with b # a failed, and a is persisted.
C4_Witness ==
    /\ target_family = "unix" /\ Fresh /\ ~overlapped /\ faults = 0
    /\ \E p, q \in Procs :
        /\ StoreDone(p) /\ result[p] = OkUnit
        /\ StoreDone(q) /\ result[q] = Err("AlreadySet")
        /\ id[p] # id[q]
        /\ file = FileWith(to_string(id[p]))

(***************************************************************************)
(* C5: registry-backed store, calls one after another, no fault: store on a *)
(* registry without a deviceid value succeeds; store of a different         *)
(* identifier on a registry that holds a value fails with AlreadySet and    *)
(* the first value stays.                                                   *)
(***************************************************************************)
C5_RegistryNoOverwrite ==
    [][\A p \in Procs :
         (target_family = "windows" /\ op[p] = "store" /\ Completes(p)
          /\ Fresh /\ ~overlapped /\ faults' = 0
          /\ seen[p] # FileWith(to_string(id[p]))) => NoOverwrite(p)]_vars

(***************************************************************************)
(* C6: once a record has been written, its value never changes, whatever    *)
(* calls are made.  Stated for environments that started without a record   *)
(* and for steps without I/O faults; a file that store has created but not  *)
(* yet filled is not yet a written record.                                  *)
(***************************************************************************)
C6_RecordImmutable ==
    [][(Fresh /\ RecordPresent /\ file.data # <<>> /\ faults' = 0) => file' = file]_vars

(***************************************************************************)
(* C7: whenever get_or_generate returns an error, the identifier it         *)
(* generated during that call is not the persisted record.  (No other call  *)
(* holds an equal identifier, so the record can only be this call's.)       *)
(***************************************************************************)
C7_FailureStoredNothing ==
    [][\A p \in Procs :
         (Completes(p) /\ op[p] = "get_or_generate" /\ result'[p].kind \in Errors
          /\ id[p] # NoId /\ \A q \in Procs \ {p} : id[q] # id[p])
            => file' # FileWith(to_string(id[p]))]_vars


(***************************************************************************)
(* C8: without a fault, get returns None exactly when no record exists at   *)
(* the time it looks for it (the file does not exist; the key does not      *)
(* exist, or the key exists but the value does not), and Some of the        *)
(* identifier parsed from the stored text when a record with a valid text   *)
(* exists.  For the file, which get reads in several steps, the second part *)
(* is stated for a record that no second store has written over.            *)
(***************************************************************************)
C8_AbsentIffNoRecord ==
    [][\A p \in Procs :
         (Completes(p) /\ op[p] = "get" /\ faults' = 0) =>
            /\ result'[p] = OkNone <=> ~RecordPresent
            /\ (RecordPresent /\ try_parse(file.data).ok
                /\ (target_family = "windows" \/ writes <= 1))
                  => result'[p] = OkSome(try_parse(file.data).uuid)]_vars

\* get returned None on a registry whose key exists without the value.
C8_Witness ==
    /\ target_family = "windows" /\ dir_exists /\ ~file.exists /\ faults = 0
    /\ \E p \in Procs : GetDone(p) /\ result[p] = OkNone

(***************************************************************************)
(* C9: when the persisted text is not a valid UUID (and no fault occurs, no *)
(* direct caller of store is at work), get and get_or_generate fail with    *)
(* BadUuidFormat, no identifier is generated, and the persisted text stays  *)
(* as it was.                                                               *)
(***************************************************************************)
C9_CorruptionReported ==
    (Corrupted /\ faults = 0 /\ ~storeCalled) =>
        /\ file = rec0
        /\ \A p \in Procs :
            /\ id[p] = NoId
            /\ pc[p] = "done" => result[p] = Err("BadUuidFormat")

\* A get and a get_or_generate both failed on the corrupted record.
C9_Witness ==
    /\ Corrupted /\ faults = 0 /\ ~storeCalled /\ file = FileWith(NotAUuid)
    /\ \E p, q \in Procs :
        /\ GetDone(p) /\ result[p] = Err("BadUuidFormat")
        /\ GogDone(q) /\ result[q] = Err("BadUuidFormat")

(***************************************************************************)
(* C10: no operation of a get call changes the persisted state (record,     *)
(* parent directory / registry key), whatever the call returns; and a       *)
(* get_or_generate called while a valid record is present (calls one after  *)
(* another, no fault) changes nothing either and returns that record.       *)
(***************************************************************************)
C10_ReadOnly ==
    [][\A p \in Procs :
         /\ (Steps(p) /\ op[p] = "get") => UNCHANGED storage
         /\ (Steps(p) /\ op[p] = "get_or_generate" /\ ~overlapped /\ faults' = 0
             /\ seen[p].exists /\ try_parse(seen[p].data).ok) =>
                /\ UNCHANGED storage
                /\ Completes(p) => result'[p] = OkId(try_parse(seen[p].data).uuid)]_vars

\* With a valid record present, a get and a get_or_generate returned it and
\* nothing was written.
C10_Witness ==
    /\ file = FileWith(Uuid3Upper) /\ file = rec0 /\ writes = 0
    /\ ~overlapped /\ faults = 0
    /\ \E p, q \in Procs :
        /\ GetDone(p) /\ result[p] = OkSome(Uuid3)
        /\ GogDone(q) /\ result[q] = OkId(Uuid3)

(***************************************************************************)
(* C11: store / retrieve round trip.  A store of x that succeeds on a      *)
(* location without a record leaves the container and a record that parses *)
(* to x; and when that store is the only call made so far and a get        *)
(* (storage::retrieve) follows it with no operation in between, the get    *)
(* returns Some(x).                                                        *)
(***************************************************************************)
StoredOnEmpty(p) ==
    /\ StoreDone(p)
    /\ result[p] = OkUnit
    /\ Fresh
    /\ calls = 2

C11_StoreRetrieveRoundTrip ==
    [][\A p \in Procs :
        /\ (/\ Completes(p)
            /\ op[p] = "store"
            /\ result'[p] = OkUnit
            /\ ~overlapped
            /\ ~seen[p].exists)
           => /\ dir_exists'
              /\ file'.exists
              /\ try_parse(file'.data) = ParseOk(id[p])
        /\ (/\ Completes(p)
            /\ op[p] = "get"
            /\ ~overlapped
            /\ faults' = 0)
           => \A q \in Procs \ {p} :
                  StoredOnEmpty(q) => result'[p] = OkSome(id[q])]_vars

C11_Witness ==
    \E p, q \in Procs :
        /\ p # q
        /\ StoredOnEmpty(q)
        /\ ~rec0.exists /\ ~overlapped /\ faults = 0
        /\ GetDone(p)
        /\ result[p] = OkSome(id[q])
        /\ dir_exists

(***************************************************************************)
(* C12, as claimed: on the file-backed store of either target the record   *)
(* is kept under XDG_CACHE_HOME whenever that variable is set, regardless  *)
(* of HOME; otherwise under HOME/.cache (Linux) or                         *)
(* HOME/Library/Application Support (Apple); and, faults apart, get and    *)
(* store fail with StorageError exactly when neither variable is set.      *)
(***************************************************************************)
ClaimedLocation ==
    IF xdg_cache_home.set
    THEN xdg_cache_home.path \o <<"Microsoft", "DeveloperTools", "deviceid">>
    ELSE IF target_os = "macos"
    THEN home.path \o <<"Library", "Application Support",
                         "Microsoft", "DeveloperTools", "deviceid">>
    ELSE home.path \o <<".cache", "Microsoft", "DeveloperTools", "deviceid">>

\* A get (storage::retrieve) or a store has returned.
BackendDone(p) == pc[p] = "done" /\ op[p] \in {"get", "store"}

C12_LocationResolution ==
    (target_family = "unix" /\ faults = 0) =>
        /\ location # NoPath => location = ClaimedLocation
        /\ \A p \in Procs :
              BackendDone(p) =>
                  (result[p] = Err("StorageError")
                       <=> (~xdg_cache_home.set /\ ~home.set))

(***************************************************************************)
(* C12, amended: on Linux the record is kept under XDG_CACHE_HOME when set *)
(* and under HOME/.cache otherwise, and get and store fail with            *)
(* StorageError exactly when neither variable is set; on Apple only HOME   *)
(* is consulted: the record is kept under HOME/Library/Application Support *)
(* whatever XDG_CACHE_HOME holds, and get and store fail with StorageError *)
(* exactly when HOME is not set.                                           *)
(***************************************************************************)
C12_LocationByTarget ==
    (target_family = "unix" /\ faults = 0) =>
        /\ (location # NoPath /\ target_os = "linux") =>
              location = ClaimedLocation
        /\ (location # NoPath /\ target_os = "macos") =>
              location = home.path \o <<"Library", "Application Support",
                                        "Microsoft", "DeveloperTools", "deviceid">>
        /\ \A p \in Procs :
              BackendDone(p) =>
                  (result[p] = Err("StorageError")
                       <=> IF target_os = "macos" THEN ~home.set
                           ELSE ~xdg_cache_home.set /\ ~home.set)

\* On Apple with both variables set, a store has created the record under
\* HOME and a get has read it back.
C12_Witness ==
    /\ target_os = "macos"
    /\ xdg_cache_home = SetTo(CacheHomeDir)
    /\ home = SetTo(HomeDir)
    /\ location = <<"/", "home", "dev", "Library", "Application Support",
                    "Microsoft", "DeveloperTools", "deviceid">>
    /\ \E p, q \in Procs :
        /\ StoreDone(p) /\ result[p] = OkUnit
        /\ GetDone(q) /\ result[q] = OkSome(id[p])

(***************************************************************************)
(* C13: re-read wins.  When the store of a get_or_generate call has        *)
(* succeeded, the call returns what its second retrieve observes: the      *)
(* identifier of the record present at that time, even when it is not the  *)
(* identifier g the call generated; it returns g without having read it    *)
(* only when the second retrieve observes no record.  What the retrieve    *)
(* observes is the text its reads of the file took (the value of the       *)
(* registry), which is the record itself when one call only has written    *)
(* it.  Stated for runs without I/O faults.                                *)
(***************************************************************************)
\* In this step the second retrieve of the call of process p returns.
ReReads(p) ==
    /\ op[p] = "get_or_generate"
    /\ pass[p] = 2
    /\ pc[p] \in {"retrieve", "retrieve_open", "retrieve_read", "retrieve_get_value"}
    /\ Completes(p)

\* The retrieve of process p has read the record to its end.
HasRead(p) == pc[p] \in {"retrieve_read", "retrieve_get_value"}

\* The text it has read: the bytes its reads of the file took, the value
\* of the registry.
TextRead(p) == IF target_family = "unix" THEN io[p].buf ELSE file.data

C13_ReReadWins ==
    [][\A p \in Procs :
        ReReads(p) =>
            LET observed == try_parse(TextRead(p)) IN
            /\ (HasRead(p) /\ RecordPresent /\ observed.ok)
                   => result'[p] = OkId(observed.uuid)
            /\ ~RecordPresent
                   => result'[p] = OkId(id[p])
            /\ (result'[p].kind = "Ok" /\ result'[p].uuid # id[p])
                   => HasRead(p) /\ RecordPresent /\ observed = ParseOk(result'[p].uuid)
            /\ result'[p] = OkId(id[p])
                   => \/ HasRead(p) /\ RecordPresent /\ observed = ParseOk(id[p])
                      \/ ~RecordPresent
            /\ (HasRead(p) /\ writes = 1)
                   => TextRead(p) = file.data]_vars

\* A call has stored its identifier and returned the one another call
\* wrote in between.
C13_Witness ==
    \E p \in Procs :
        /\ GogDone(p)
        /\ result[p].kind = "Ok"
        /\ result[p].uuid # id[p]
        /\ id[p] \in GenIds
        /\ result[p].uuid \in GenIds
        /\ file = FileWith(to_string(result[p].uuid))
        /\ faults = 0

(***************************************************************************)
(* C14: every get_or_generate call issues its backend operations in the    *)
(* order retrieve, store, retrieve: the store only when the first retrieve *)
(* found no record, never more than one store and two retrieves.  A        *)
(* StorageError is returned by the very step that failed (by the write     *)
(* that follows it, when the step was a write that took a part of the      *)
(* text), nothing is retried.  The call terminates: as long as it runs it  *)
(* has a step to take, and every step brings it closer to its return.      *)
(***************************************************************************)
GogOrder ==
    {<<>>, <<"retrieve">>, <<"retrieve", "store">>, <<"retrieve", "store", "retrieve">>}

\* The backend operation the next step of process p issues, if any.
Issuing(p) ==
    IF pc[p] = RetrieveEntry THEN <<"retrieve">>
    ELSE IF pc[p] = StoreEntry THEN <<"store">>
    ELSE <<>>

\* An upper bound on the steps a retrieve still takes from label l, and a
\* store: every read but the last takes at least one byte of a file that
\* is not longer than the longest record, every write at least one byte
\* of the text.
RecordMax == Len(Uuid3Newline)
TextMax == Len(to_string(Uuid1))

RetrieveLeft(p, l) ==
    IF l = "retrieve_read" THEN RecordMax + 1 - Len(io[p].buf)
    ELSE IF l = "retrieve_get_value" THEN 1
    ELSE IF l = "retrieve_fstat" THEN RecordMax + 2
    ELSE IF l = "retrieve_open" THEN RecordMax + 3
    ELSE RecordMax + 4

StoreLeft(p, l) ==
    IF l = "store_write_all" THEN TextMax - io[p].off
    ELSE IF l \in {"store_write_create", "store_set_value"} THEN TextMax + 1
    ELSE IF l = "store_exists" THEN TextMax + 2
    ELSE TextMax + 3

RetrieveLabels == {"retrieve", "retrieve_open", "retrieve_fstat", "retrieve_read",
                   "retrieve_get_value"}

\* An upper bound on the steps the call of process p still takes.
StepsLeft(p) ==
    IF ~Running(p) THEN 0
    ELSE IF pc[p] \in RetrieveLabels THEN
        RetrieveLeft(p, pc[p])
        + (IF op[p] = "get_or_generate" /\ pass[p] = 1
           THEN StoreLeft(p, StoreEntry) + RetrieveLeft(p, RetrieveEntry) ELSE 0)
    ELSE StoreLeft(p, pc[p])
         + (IF op[p] = "get_or_generate" THEN RetrieveLeft(p, RetrieveEntry) ELSE 0)

\* A step of the backend taken by process p.
BackendStep(p) ==
    \/ UnixStorage_retrieve(p)
    \/ retrieve_open(p)
    \/ retrieve_fstat(p)
    \/ retrieve_read(p)
    \/ store_create_dir_all(p)
    \/ store_exists(p)
    \/ store_write_create(p)
    \/ store_write_all(p)
    \/ retrieve_with_registry(p)
    \/ retrieve_get_value(p)
    \/ store_open_create_key(p)
    \/ store_set_value(p)

GogRuns(p) == Running(p) /\ op[p] = "get_or_generate"

C14_OrderedFailFast ==
    /\ [](\A p \in Procs :
            GogRuns(p) =>
                /\ trace[p] \o Issuing(p) \in GogOrder
                /\ ENABLED BackendStep(p))
    /\ [][\A p \in Procs :
            (GogRuns(p) /\ Steps(p)) =>
                /\ StepsLeft(p)' < StepsLeft(p)
                /\ (~Completes(p)) => trace'[p] = trace[p] \o Issuing(p)
                /\ pc'[p] = StoreEntry =>
                       /\ trace[p] \o Issuing(p) = <<"retrieve">>
                       /\ ~RecordPresent \/ faults' > faults
                /\ (Completes(p) /\ result'[p] = Err("StorageError")) =>
                       \/ faults' = faults + 1
                       \/ pc[p] = "store_write_all" /\ io[p].off > 0
                /\ (faults' > faults) =>
                       \/ Completes(p) /\ result'[p] = Err("StorageError")
                       \/ target_family = "unix"
                          /\ pc[p] \in {"retrieve", "retrieve_fstat", "store_exists",
                                        "store_write_all"}
          ]_vars

\* One call is about to re-read after its retrieve and its store, another
\* one has returned the storage error of a failed step.
C14_Witness ==
    \E p, q \in Procs :
        /\ GogRuns(p)
        /\ trace[p] = <<"retrieve", "store">>
        /\ pc[p] = "retrieve"
        /\ pass[p] = 2
        /\ GogDone(q)
        /\ result[q] = Err("StorageError")

(***************************************************************************)
(* C15: BadUuidFormat only signals external corruption.  Starting without  *)
(* a record, with no fault and nothing but get and get_or_generate calls   *)
(* (so that every record read was written by get_or_generate), no call     *)
(* returns BadUuidFormat, however the calls interleave.                    *)
(***************************************************************************)
C15_NoBadFormat ==
    (Fresh /\ faults = 0 /\ ~storeCalled) =>
        \A p \in Procs :
            pc[p] = "done" => result[p] # Err("BadUuidFormat")

(***************************************************************************)
(* C16: a record file holding the canonical text of an identifier followed *)
(* by a newline is read as that identifier: get returns Some(x) and        *)
(* get_or_generate returns x, not BadUuidFormat.                           *)
(***************************************************************************)
C16_TrailingNewlineTolerated ==
    (target_family = "unix" /\ rec0 = FileWith(Uuid3Newline) /\ faults = 0) =>
        \A p \in Procs :
            /\ GetDone(p) => result[p] = OkSome(Uuid3)
            /\ GogDone(p) => result[p] = OkId(Uuid3)

(***************************************************************************)
(* C17: convergence at quiescence.  Processes call get_or_generate, one    *)
(* call each, concurrently, starting without a record and without faults.  *)
(* Once every call has returned, a record is present and it holds the      *)
(* identifier returned by at least one call that returned Ok.              *)
(***************************************************************************)
Called == {p \in Procs : pc[p] # "idle"}

\* Every call made was a get_or_generate, at most one per process, and
\* all of them have returned.
GogCallsFinished ==
    /\ calls >= 1
    /\ calls = Cardinality(Called)
    /\ \A p \in Called : GogDone(p)

C17_Convergence ==
    (Fresh /\ faults = 0 /\ GogCallsFinished) =>
        /\ RecordPresent
        /\ \E p \in Called :
              /\ result[p].kind = "Ok"
              /\ try_parse(file.data) = ParseOk(result[p].uuid)

\* Every process has called concurrently and finished; one call failed,
\* and the record is the identifier another call returned.
C17_Witness ==
    /\ Fresh /\ faults = 0 /\ GogCallsFinished
    /\ overlapped
    /\ Called = Procs
    /\ \E p, q \in Procs :
        /\ result[p].kind \in Errors
        /\ result[q].kind = "Ok"
        /\ file = FileWith(to_string(result[q].uuid))

====
